---- MODULE Spec2Model ----
(***************************************************************************)
(* Einkaufs-App (src/main.py): a FastAPI service that records shopping     *)
(* expenses in three Notion databases (Transaktionen, Kategorien, Monate)  *)
(* and shows the monthly total of the category "Lebensmittel".             *)
(*                                                                         *)
(* The state is the process configuration read from the environment, the   *)
(* content of the three remote databases, and what the last handled        *)
(* request was, which outbound calls it issued and what it answered.       *)
(* Amounts are integers in thousandths of a franc (5500 = 5.50 CHF), so    *)
(* that rounding to two decimals is an operation and not the identity.     *)
(***************************************************************************)
EXTENDS Integers, Sequences, FiniteSets, TLC

VARIABLES
    NOTION_API_KEY,   \* os.getenv("NOTION_API_KEY"): a token or None
    DB_TRANSAKT_ID,   \* os.getenv("NOTION_TRANSAKT_DB_ID")
    DB_KATEG_ID,      \* os.getenv("NOTION_KATEG_DB_ID")
    DB_MONAT_ID,      \* os.getenv("NOTION_MONAT_DB_ID")
    phase,            \* "import" while the module body runs, then "serving"
    warned,           \* the warning of line 23 was printed
    kategorien_db,    \* remote store: pages of the Kategorien database
    monat_db,         \* remote store: pages of the Monate database
    transakt_db,      \* remote store: pages of the Transaktionen database
    request,          \* the request handled last
    response,         \* its response
    total,            \* what get_lebensmittel_sum_for_month returned (line 138)
    calls             \* the outbound calls it issued, in order

vars == <<NOTION_API_KEY, DB_TRANSAKT_ID, DB_KATEG_ID, DB_MONAT_ID, phase,
          warned, kategorien_db, monat_db, transakt_db, request, response,
          total, calls>>

config == <<NOTION_API_KEY, DB_TRANSAKT_ID, DB_KATEG_ID, DB_MONAT_ID>>

(***************************************************************************)
(* Bounds of the model.                                                    *)
(***************************************************************************)
\* Number of pages POST /add may create in one behaviour.
MaxAdded == 1
\* Number of pages the remote store returns for one query that names no
\* page_size.  The hosted store answers with one page of at most 100
\* records and a cursor for the rest; the model scales the 100 down.
StorePageLimit == 3

(***************************************************************************)
(* Python values.                                                          *)
(***************************************************************************)
None == "None"

\* `not x` for an Optional[str]: None and the empty string are falsy.
Falsy(x) == x = None \/ x = ""

\* Optional values that are not strings are sequences: <<>> is null,
\* <<v>> is v.
Null == <<>>
Some(v) == <<v>>

Min(a, b) == IF a < b THEN a ELSE b

(***************************************************************************)
(* Configuration (lines 15-32).                                            *)
(***************************************************************************)
\* The values the environment holds when the variables are set.
ApiKey == "secret_token"
TransaktId == "db_transaktionen"
KategId == "db_kategorien"
MonatId == "db_monate"

\* Faulty variant of ConfigIncomplete: `and` in place of `or`.
ConfigIncomplete_BothMissing == Falsy(NOTION_API_KEY) /\ Falsy(DB_TRANSAKT_ID)

\* Line 22: the condition under which the warning of line 23 is printed.
ConfigIncomplete == Falsy(NOTION_API_KEY) \/ Falsy(DB_TRANSAKT_ID)

(***************************************************************************)
(* The remote store.  A page of Kategorien or Monate is [id, Name]; a page *)
(* of Transaktionen carries the properties add_transaction writes.  Name   *)
(* is the title property: the sequence of its text fragments.              *)
(***************************************************************************)
Kategorien ==
    << [id |-> "kat_leb",  Name |-> <<"Lebensmittel">>],
       [id |-> "kat_shop", Name |-> <<"Shopping">>],
       [id |-> "kat_leb2", Name |-> <<"Lebensmittel">>],
       [id |-> "kat_leer", Name |-> <<>>] >>

Monate ==
    << [id |-> "mon_maerz", Name |-> <<"Maerz">>],
       [id |-> "mon_april", Name |-> <<"April">>] >>

TxPage(id, name, betrag, kat_text, kats, monate) ==
    [id |-> id, Name |-> <<name>>, Betrag |-> betrag, Datum |-> "2025-03-01",
     Kategorie_Text |-> kat_text, Notiz |-> <<>>, Kategorien |-> kats,
     Monat |-> monate]

\* Pages that exist before the service starts: 10.00 and 5.50 for
\* Lebensmittel in Maerz, 100.00 for Shopping in Maerz, a Lebensmittel page in
\* Maerz without amount, and 7.00 for Lebensmittel in April.
Bestand ==
    << TxPage(1, "Brot", Some(10000), "Lebensmittel", <<"kat_leb">>, <<"mon_maerz">>),
       TxPage(2, "Milch", Some(5500), "Lebensmittel", <<"kat_leb">>, <<"mon_maerz">>),
       TxPage(3, "Schuhe", Some(100000), "Shopping", <<"kat_shop">>, <<"mon_maerz">>),
       TxPage(4, "Notiz", Null, "Lebensmittel", <<"kat_leb">>, <<"mon_maerz">>),
       TxPage(5, "Eier", Some(7000), "Lebensmittel", <<"kat_leb">>, <<"mon_april">>) >>

\* The database a database id names.
Collection(database_id) ==
    CASE database_id = TransaktId -> transakt_db
      [] database_id = KategId    -> kategorien_db
      [] database_id = MonatId    -> monat_db
      [] OTHER                    -> <<>>

RECURSIVE Contains(_, _)
Contains(seq, x) ==
    IF seq = <<>> THEN FALSE
    ELSE IF Head(seq) = x THEN TRUE ELSE Contains(Tail(seq), x)

\* The store's evaluation of a filter on a page.
RECURSIVE FilterHolds(_, _)
FilterHolds(page, filter) ==
    IF "and" \in DOMAIN filter
    THEN \A i \in 1..Len(filter.and) : FilterHolds(page, filter.and[i])
    ELSE IF "title" \in DOMAIN filter
    THEN page[filter.property] = <<filter.title.equals>>
    ELSE Contains(page[filter.property], filter.relation.contains)

\* POST /databases/{id}/query: the pages matching the filter in the store's
\* order, cut to one page of results.
StoreQuery(database_id, payload) ==
    LET all == Collection(database_id)
        hits == IF payload.filter = Null THEN all
                ELSE SelectSeq(all, LAMBDA p : FilterHolds(p, payload.filter[1]))
        size == IF payload.page_size = Null THEN StorePageLimit
                ELSE Min(payload.page_size[1], StorePageLimit)
    IN SubSeq(hits, 1, Min(size, Len(hits)))

\* The store answers a request when the transport is up and the bearer
\* token is one it knows.
Answered(up) == up /\ ~Falsy(NOTION_API_KEY)

\* The transport outcomes to tell apart for a call: both when the call is
\* issued and the store knows the token, one when the call is not issued or
\* is refused in any case.
Transport(issued) ==
    IF issued /\ ~Falsy(NOTION_API_KEY) THEN BOOLEAN ELSE {TRUE}

(***************************************************************************)
(* Helper functions (lines 54-120).  Each returns its Python value and the *)
(* outbound calls it issued; `up` says whether the transport of a call     *)
(* works.                                                                  *)
(***************************************************************************)
\* Faulty variant of query_database: the status of the answer is not checked and
\* the except branch hands on what the store holds.
query_database_IgnoresFailure(database_id, payload, up) ==
    [results |-> StoreQuery(database_id, payload)]

\* Lines 54-62.
query_database(database_id, payload, up) ==
    IF Answered(up)
    THEN [results |-> StoreQuery(database_id, payload)]
    ELSE [results |-> <<>>]

\* The record of one query: what was asked, whether the store answered with
\* success, and the result set query_database handed to its caller.
QueryCall(database_id, payload, up) ==
    [op |-> "query", database_id |-> database_id, payload |-> payload,
     ok |-> Answered(up),
     results |-> query_database(database_id, payload, up).results]

RECURSIVE TitlesOf(_)
TitlesOf(pages) ==
    IF pages = <<>> THEN <<>>
    ELSE LET title == Head(pages).Name
         IN (IF title # <<>> THEN <<title[1]>> ELSE <<>>) \o TitlesOf(Tail(pages))

NoPayload == [filter |-> Null, page_size |-> Null]

\* Lines 64-74.
get_names_from_db(database_id, up) ==
    IF Falsy(database_id) THEN [value |-> <<>>, calls |-> <<>>]
    ELSE LET data == query_database(database_id, NoPayload, up)
         IN [value |-> TitlesOf(data.results),
             calls |-> <<QueryCall(database_id, NoPayload, up)>>]

NamePayload(name) ==
    [filter |-> Some([property |-> "Name", title |-> [equals |-> name]]),
     page_size |-> Some(1)]

\* Faulty variant of find_page_id_by_name: the guard of line 77 forgets the name.
find_page_id_by_name_NoNameGuard(database_id, name, up) ==
    IF Falsy(database_id) THEN [value |-> None, calls |-> <<>>]
    ELSE LET payload == NamePayload(name)
             data == query_database(database_id, payload, up)
             results == data.results
         IN [value |-> IF results = <<>> THEN None ELSE results[1].id,
             calls |-> <<QueryCall(database_id, payload, up)>>]

\* Lines 76-90.
find_page_id_by_name(database_id, name, up) ==
    IF Falsy(name) \/ Falsy(database_id) THEN [value |-> None, calls |-> <<>>]
    ELSE LET payload == NamePayload(name)
             data == query_database(database_id, payload, up)
             results == data.results
         IN [value |-> IF results = <<>> THEN None ELSE results[1].id,
             calls |-> <<QueryCall(database_id, payload, up)>>]

SumPayload(month_id, cat_id) ==
    [filter |-> Some([and |->
        << [property |-> "Monat", relation |-> [contains |-> month_id]],
           [property |-> "Kategorien", relation |-> [contains |-> cat_id]] >>]),
     page_size |-> Null]

\* Faulty variant of SumBetrag: `total -= betrag`.
RECURSIVE SumBetrag_Subtracts(_)
SumBetrag_Subtracts(pages) ==
    IF pages = <<>> THEN 0
    ELSE LET betrag == Head(pages).Betrag
         IN SumBetrag_Subtracts(Tail(pages)) - (IF betrag # Null THEN betrag[1] ELSE 0)

\* Lines 110-115: a page whose Betrag is not a number is skipped.
RECURSIVE SumBetrag(_)
SumBetrag(pages) ==
    IF pages = <<>> THEN 0
    ELSE LET betrag == Head(pages).Betrag
         IN (IF betrag # Null THEN betrag[1] ELSE 0) + SumBetrag(Tail(pages))

\* Faulty variant of SumInputMissing: the Kategorien id is not looked at.
SumInputMissing_ForgetsKateg(monat_name) ==
    Falsy(monat_name) \/ Falsy(DB_MONAT_ID) \/ Falsy(DB_TRANSAKT_ID)

\* Line 93: the condition of the early return.
SumInputMissing(monat_name) ==
    Falsy(monat_name) \/ Falsy(DB_MONAT_ID) \/ Falsy(DB_TRANSAKT_ID)
    \/ Falsy(DB_KATEG_ID)

\* Lines 92-115.
get_lebensmittel_sum_for_month(monat_name, up1, up2, up3) ==
    IF SumInputMissing(monat_name)
    THEN [value |-> 0, calls |-> <<>>]
    ELSE LET month == find_page_id_by_name(DB_MONAT_ID, monat_name, up1)
             cat == find_page_id_by_name(DB_KATEG_ID, "Lebensmittel", up2)
         IN IF Falsy(month.value) \/ Falsy(cat.value)
            THEN [value |-> 0, calls |-> month.calls \o cat.calls]
            ELSE LET payload == SumPayload(month.value, cat.value)
                     data == query_database(DB_TRANSAKT_ID, payload, up3)
                 IN [value |-> SumBetrag(data.results),
                     calls |-> month.calls \o cat.calls
                               \o <<QueryCall(DB_TRANSAKT_ID, payload, up3)>>]

\* Whether get_lebensmittel_sum_for_month gets as far as the compound query
\* of line 109.
SumQueries(monat_name, up1, up2) ==
    Len(get_lebensmittel_sum_for_month(monat_name, up1, up2, TRUE).calls) = 3

\* Lines 117-120.
load_options(up1, up2) ==
    LET kategorien == IF ~Falsy(DB_KATEG_ID) THEN get_names_from_db(DB_KATEG_ID, up1)
                      ELSE [value |-> <<>>, calls |-> <<>>]
        monate == IF ~Falsy(DB_MONAT_ID) THEN get_names_from_db(DB_MONAT_ID, up2)
                  ELSE [value |-> <<>>, calls |-> <<>>]
    IN [value |-> [kategorien |-> kategorien.value, monate |-> monate.value],
        calls |-> kategorien.calls \o monate.calls]

(***************************************************************************)
(* The inputs of the requests.                                             *)
(***************************************************************************)
Namen == {"Kaese"}
Betraege == {-2500, 1235}
Daten == {"2025-03-14"}
KategorieNamen == {"Lebensmittel", "Reisen"}
MonatNamen == {"Maerz", "Mai", ""}
Notizen == {None}

\* class Transaction, lines 38-44.
Transaction ==
    [name : Namen, betrag : Betraege, datum : Daten, kategorie : KategorieNamen,
     monat : MonatNamen, notiz : Notizen]

\* round(total, 2) of line 139, in thousandths: the multiples of ten nearest
\* to x.  A decimal tie is no tie in binary floating point and falls to
\* either side.
Round2(x) ==
    LET r == x % 10
        down == x - r
    IN IF r < 5 THEN {down} ELSE IF r > 5 THEN {down + 10} ELSE {down, down + 10}

InsertAt(seq, pos, x) ==
    SubSeq(seq, 1, pos) \o <<x>> \o SubSeq(seq, pos + 1, Len(seq))

\* The number of pages the service has created.
Added == Cardinality({i \in 1..Len(transakt_db) : transakt_db[i].id > Len(Bestand)})

(***************************************************************************)
(* Lines 15-32 and 126: the module body reads the environment, prints a    *)
(* warning when the key or the Transaktionen id is missing, and builds the *)
(* app, which then serves.                                                 *)
(***************************************************************************)
Startup ==
    /\ phase = "import"
    /\ warned' = ConfigIncomplete
    /\ phase' = "serving"
    /\ UNCHANGED <<config, kategorien_db, monat_db, transakt_db, request,
                   response, total, calls>>

\* Lines 128-130.
read_root ==
    /\ phase = "serving"
    /\ request' = [route |-> "/"]
    /\ response' = [status |-> 200, body |-> [message |-> "Einkaufs-App-API laeuft"]]
    /\ calls' = <<>>
    /\ UNCHANGED <<config, phase, warned, kategorien_db, monat_db, transakt_db,
                   total>>

\* Lines 132-134.
get_options ==
    /\ phase = "serving"
    /\ \E up1 \in Transport(~Falsy(DB_KATEG_ID)) :
       \E up2 \in Transport(~Falsy(DB_MONAT_ID)) :
         LET options == load_options(up1, up2)
         IN /\ request' = [route |-> "/options"]
            /\ response' = [status |-> 200, body |-> options.value]
            /\ calls' = options.calls
    /\ UNCHANGED <<config, phase, warned, kategorien_db, monat_db, transakt_db,
                   total>>

\* Lines 136-139.
lebensmittel_sum ==
    /\ phase = "serving"
    /\ \E monat \in MonatNamen :
       \E up1, up2 \in Transport(~SumInputMissing(monat)) :
       \E up3 \in Transport(SumQueries(monat, up1, up2)) :
         LET sum == get_lebensmittel_sum_for_month(monat, up1, up2, up3)
         IN /\ request' = [route |-> "/lebensmittel_sum", monat |-> monat]
            /\ total' = sum.value
            /\ \E rounded \in Round2(sum.value) :
                 response' = [status |-> 200,
                              body |-> [monat |-> monat, sum |-> rounded]]
            /\ calls' = sum.calls
    /\ UNCHANGED <<config, phase, warned, kategorien_db, monat_db, transakt_db>>

\* Faulty variant of CreatePayload: the relations are attached without the tests of
\* lines 153 and 155.
CreatePayload_AlwaysRelates(tx, cat_id, month_id) ==
    [parent |-> [database_id |-> DB_TRANSAKT_ID],
     properties |-> [Name |-> <<tx.name>>,
                     Betrag |-> Some(tx.betrag),
                     Datum |-> tx.datum,
                     Kategorie_Text |-> tx.kategorie,
                     Notiz |-> IF ~Falsy(tx.notiz) THEN <<tx.notiz>> ELSE <<>>,
                     Kategorien |-> <<cat_id>>,
                     Monat |-> <<month_id>>]]

\* Lines 146-161: the payload of the create call.
CreatePayload(tx, cat_id, month_id) ==
    LET base == [Name |-> <<tx.name>>,
                 Betrag |-> Some(tx.betrag),
                 Datum |-> tx.datum,
                 Kategorie_Text |-> tx.kategorie,
                 Notiz |-> IF ~Falsy(tx.notiz) THEN <<tx.notiz>> ELSE <<>>]
        kat == IF ~Falsy(cat_id) THEN "Kategorien" :> <<cat_id>>
               ELSE [k \in {} |-> k]
        mon == IF ~Falsy(month_id) THEN "Monat" :> <<month_id>>
               ELSE [k \in {} |-> k]
    IN [parent |-> [database_id |-> DB_TRANSAKT_ID],
        properties |-> base @@ kat @@ mon]

\* POST /pages: the store accepts a page whose parent is the Transaktionen
\* database; a relation the payload leaves out is empty on the page.
StoreAccepts(payload) == payload.parent.database_id = TransaktId

StorePage(id, properties) ==
    [id |-> id,
     Name |-> properties.Name,
     Betrag |-> properties.Betrag,
     Datum |-> properties.Datum,
     Kategorie_Text |-> properties.Kategorie_Text,
     Notiz |-> properties.Notiz,
     Kategorien |-> IF "Kategorien" \in DOMAIN properties
                    THEN properties.Kategorien ELSE <<>>,
     Monat |-> IF "Monat" \in DOMAIN properties THEN properties.Monat ELSE <<>>]

\* Faulty variant of post_page: the call updates the first page of the database
\* instead of creating one.
post_page_Overwrites(payload, ok, pos) ==
    IF ok /\ transakt_db # <<>>
    THEN [transakt_db EXCEPT ![1] =
              StorePage(transakt_db[1].id, payload.properties)]
    ELSE transakt_db

\* Lines 163-169: requests.post to /pages.  The content of the Transaktionen
\* database afterwards: the page is added at position pos of the store's
\* order when the store accepted it.
post_page(payload, ok, pos) ==
    IF ok
    THEN InsertAt(transakt_db, pos,
                  StorePage(Len(Bestand) + Added + 1, payload.properties))
    ELSE transakt_db

\* Faulty variant of AddResponse: the exception of the create call is swallowed.
AddResponse_AlwaysOk(ok) == [status |-> 200, body |-> [status |-> "ok"]]

\* Lines 169-174: HTTP 500 when the create call raised, {"status": "ok"}
\* otherwise.
AddResponse(ok) ==
    IF ok THEN [status |-> 200, body |-> [status |-> "ok"]]
    ELSE [status |-> 500, body |-> [detail |-> "Fehler beim Speichern in Notion"]]

\* Lines 141-174.
add_transaction ==
    /\ phase = "serving"
    /\ Added < MaxAdded
    /\ \E tx \in Transaction :
       \E up1 \in Transport(~Falsy(DB_KATEG_ID) /\ ~Falsy(tx.kategorie)) :
       \E up2 \in Transport(~Falsy(DB_MONAT_ID) /\ ~Falsy(tx.monat)) :
       \E up3 \in Transport(~Falsy(DB_TRANSAKT_ID)) :
         LET cat == IF ~Falsy(DB_KATEG_ID)
                    THEN find_page_id_by_name(DB_KATEG_ID, tx.kategorie, up1)
                    ELSE [value |-> None, calls |-> <<>>]
             month == IF ~Falsy(DB_MONAT_ID)
                      THEN find_page_id_by_name(DB_MONAT_ID, tx.monat, up2)
                      ELSE [value |-> None, calls |-> <<>>]
             payload == CreatePayload(tx, cat.value, month.value)
             ok == Answered(up3) /\ StoreAccepts(payload)
         IN /\ request' = [route |-> "/add", tx |-> tx]
            /\ calls' = cat.calls \o month.calls
                        \o <<[op |-> "create", payload |-> payload, ok |-> ok]>>
            /\ \E pos \in {0, Len(transakt_db)} :
                 transakt_db' = post_page(payload, ok, pos)
            /\ response' = AddResponse(ok)
    /\ UNCHANGED <<config, phase, warned, kategorien_db, monat_db, total>>

\* Lines 180-431: the form.  Of the page only the choices it offers are
\* modelled: the categories of the fixed groups that exist, the remaining
\* categories, and the months.
Gruppiert == <<"Lebensmittel", "Shopping", "Restaurant", "Wohnen Nebenkosten",
               "Serafe", "Steuern Bund", "Versicherungen Mobi Haus",
               "Versicherung GS", "Reisen", "Freizeit">>

einkaufs_formular ==
    /\ phase = "serving"
    /\ \E up1 \in Transport(~Falsy(DB_KATEG_ID)) :
       \E up2 \in Transport(~Falsy(DB_MONAT_ID)) :
         LET options == load_options(up1, up2)
             kats == options.value.kategorien
             vorhandene == SelectSeq(Gruppiert, LAMBDA k : Contains(kats, k))
             restliche == {kats[i] : i \in 1..Len(kats)}
                          \ {Gruppiert[i] : i \in 1..Len(Gruppiert)}
         IN /\ request' = [route |-> "/formular"]
            /\ response' = [status |-> 200,
                            body |-> [gruppen |-> vorhandene,
                                      diverses |-> restliche,
                                      monate |-> options.value.monate]]
            /\ calls' = options.calls
    /\ UNCHANGED <<config, phase, warned, kategorien_db, monat_db, transakt_db,
                   total>>

Init ==
    /\ NOTION_API_KEY \in {ApiKey, None}
    /\ DB_TRANSAKT_ID \in {TransaktId, None}
    /\ DB_KATEG_ID \in {KategId, None}
    /\ DB_MONAT_ID \in {MonatId, None}
    /\ phase = "import"
    /\ warned = FALSE
    /\ kategorien_db = Kategorien
    /\ monat_db = Monate
    /\ transakt_db \in {<<>>, Bestand}
    /\ request = [route |-> "none"]
    /\ response = [status |-> 0]
    /\ total = 0
    /\ calls = <<>>

Next ==
    \/ Startup
    \/ read_root
    \/ get_options
    \/ lebensmittel_sum
    \/ add_transaction
    \/ einkaufs_formular

Spec == Init /\ [][Next]_vars

(***************************************************************************)
(* What the properties read off a state.                                   *)
(***************************************************************************)
CreateCalls == SelectSeq(calls, LAMBDA c : c.op = "create")

QueriesTo(database_id) ==
    SelectSeq(calls, LAMBDA c : c.op = "query" /\ c.database_id = database_id)

FailedCalls == {i \in 1..Len(calls) : ~calls[i].ok}

\* The identifier the resolution against a database returned to the handler
\* of the last request: that of the first record of its query, None when no
\* query was issued or it came back empty.
ResolvedIn(database_id) ==
    LET q == QueriesTo(database_id)
    IN IF q = <<>> THEN None
       ELSE IF q[1].results = <<>> THEN None ELSE q[1].results[1].id

Pages == {transakt_db[i] : i \in 1..Len(transakt_db)}

\* The page the last successful /add created.
NewestPage == CHOOSE p \in Pages : p.id = Len(Bestand) + Added

AddSucceeded == request.route = "/add" /\ response.status = 200

AllIdsSet ==
    ~Falsy(DB_TRANSAKT_ID) /\ ~Falsy(DB_KATEG_ID) /\ ~Falsy(DB_MONAT_ID)

\* sumForMonth(m) on the current store when no read fails.
SumNow(m) == get_lebensmittel_sum_for_month(m, TRUE, TRUE, TRUE).value

(***************************************************************************)
(* C1: every POST /add issues exactly one create call, which carries the   *)
(* name, the amount and the date of the request unchanged; the answer is   *)
(* {status: ok} exactly when that call succeeded and HTTP 500 exactly when *)
(* it failed, whatever the resolutions did.                                *)
(***************************************************************************)
C1_RecordIssuesOneCreate ==
    request.route = "/add" =>
        /\ Len(CreateCalls) = 1
        /\ LET create == CreateCalls[1]
               properties == create.payload.properties
           IN /\ properties.Name = <<request.tx.name>>
              /\ properties.Betrag = <<request.tx.betrag>>
              /\ properties.Datum = request.tx.datum
              /\ (response = [status |-> 200, body |-> [status |-> "ok"]])
                    <=> create.ok
              /\ (response.status = 500) <=> ~create.ok

\* An /add that succeeded although both of its reads failed.
C1_Witness ==
    /\ AddSucceeded
    /\ Len(calls) = 3
    /\ FailedCalls = {1, 2}

(***************************************************************************)
(* C2: on every page POST /add created, the plain-text category is the     *)
(* submitted category name, the Kategorien relation holds exactly the      *)
(* identifier the category resolution returned and is empty when it        *)
(* returned none, and likewise the Monat relation.                         *)
(***************************************************************************)
C2_RelationsFollowResolution ==
    AddSucceeded =>
        LET page == NewestPage
            cat_id == ResolvedIn(KategId)
            month_id == ResolvedIn(MonatId)
        IN /\ page.Kategorie_Text = request.tx.kategorie
           /\ page.Kategorien = IF cat_id = None THEN <<>> ELSE <<cat_id>>
           /\ page.Monat = IF month_id = None THEN <<>> ELSE <<month_id>>

\* A page created for a category the Kategorien database does not hold:
\* the query was answered, empty, and the page has the text only.
C2_Witness ==
    /\ AddSucceeded
    /\ request.tx.kategorie = "Reisen"
    /\ QueriesTo(KategId) # <<>>
    /\ QueriesTo(KategId)[1].ok
    /\ NewestPage.Kategorie_Text = "Reisen"
    /\ NewestPage.Kategorien = <<>>
    /\ NewestPage.Monat = <<"mon_maerz">>

(***************************************************************************)
(* C3: with all three identifiers set, both names resolved and no read     *)
(* failed, sumForMonth(m) is the sum of the amounts of ALL pages of the    *)
(* Transaktionen database whose Monat relation contains the month and      *)
(* whose Kategorien relation contains the tracked category, a missing      *)
(* amount counting 0, however many such pages there are.                   *)
(***************************************************************************)
C3_SumCoversAllMatching ==
    ( /\ request.route = "/lebensmittel_sum"
      /\ AllIdsSet
      /\ Len(calls) = 3
      /\ FailedCalls = {} ) =>
        LET month_id == ResolvedIn(MonatId)
            cat_id == ResolvedIn(KategId)
            matching == SelectSeq(transakt_db,
                            LAMBDA p : /\ Contains(p.Monat, month_id)
                                       /\ Contains(p.Kategorien, cat_id))
        IN total = SumBetrag(matching)

(***************************************************************************)
(* C4: sumForMonth with an empty month name, or with any of the three      *)
(* database identifiers unset, returns 0 and issues no outbound call.      *)
(***************************************************************************)
C4_EarlyReturnWithoutCall ==
    ( /\ request.route = "/lebensmittel_sum"
      /\ (request.monat = "" \/ ~AllIdsSet) ) =>
        /\ total = 0
        /\ calls = <<>>

\* A sum for a named month, asked while only the Kategorien id is unset.
C4_Witness ==
    /\ request.route = "/lebensmittel_sum"
    /\ request.monat = "Maerz"
    /\ Falsy(DB_KATEG_ID)
    /\ ~Falsy(DB_MONAT_ID) /\ ~Falsy(DB_TRANSAKT_ID) /\ ~Falsy(NOTION_API_KEY)
    /\ transakt_db # <<>>

(***************************************************************************)
(* C5: when the API key or the Transaktionen id is missing from the        *)
(* environment, the process does not start serving: no route is ever       *)
(* handled in that configuration.                                          *)
(***************************************************************************)
C5_FailsFast ==
    (Falsy(NOTION_API_KEY) \/ Falsy(DB_TRANSAKT_ID)) =>
        request.route \notin {"/options", "/lebensmittel_sum", "/add"}

(***************************************************************************)
(* C5, amended: when the API key or the Transaktionen id is missing, and   *)
(* only then, startup prints a warning; the process starts serving and     *)
(* handles requests in either case.                                        *)
(***************************************************************************)
C5_WarnsAndServes ==
    /\ phase = "serving" =>
          (warned <=> (Falsy(NOTION_API_KEY) \/ Falsy(DB_TRANSAKT_ID)))
    /\ request.route # "none" => phase = "serving"

\* A request handled by a process that started without the key.
C5_Witness ==
    /\ Falsy(NOTION_API_KEY)
    /\ ~Falsy(DB_TRANSAKT_ID)
    /\ warned
    /\ request.route = "/add"

(***************************************************************************)
(* C6: when a query of sumForMonth fails, that query yields an empty       *)
(* result set, sumForMonth returns 0, and /lebensmittel_sum answers with   *)
(* success and a sum of 0, never with an error.                            *)
(***************************************************************************)
C6_ReadFailureAbsorbed ==
    ( /\ request.route = "/lebensmittel_sum"
      /\ FailedCalls # {} ) =>
        /\ \A i \in FailedCalls : calls[i].results = <<>>
        /\ total = 0
        /\ response.status = 200
        /\ response.body.sum = 0

\* Both names resolved, the compound query failed, and the store holds
\* pages it would have returned.
C6_Witness ==
    /\ request.route = "/lebensmittel_sum"
    /\ request.monat = "Maerz"
    /\ Len(calls) = 3
    /\ FailedCalls = {3}
    /\ SumNow("Maerz") > 0
    /\ total = 0

(***************************************************************************)
(* C7: sumForMonth returns a value greater than or equal to 0, for every   *)
(* month name and every content of the store, pages recorded through /add  *)
(* included.                                                               *)
(***************************************************************************)
C7_SumNonNegative ==
    request.route = "/lebensmittel_sum" => total >= 0

NoNegativeBetrag == \A p \in Pages : p.Betrag = Null \/ p.Betrag[1] >= 0

(***************************************************************************)
(* C7, amended: sumForMonth returns a value greater than or equal to 0     *)
(* provided no page of the Transaktionen database has a negative amount;   *)
(* /add accepts negative amounts.                                          *)
(***************************************************************************)
C7_SumNonNegativeWithoutNegatives ==
    (request.route = "/lebensmittel_sum" /\ NoNegativeBetrag) => total >= 0

\* A positive total that includes a page recorded through /add.
C7_Witness ==
    /\ request.route = "/lebensmittel_sum"
    /\ NoNegativeBetrag
    /\ Added = 1
    /\ Len(calls) = 3
    /\ Contains(calls[3].results, NewestPage)
    /\ total > 0

(***************************************************************************)
(* C8: no operation changes or removes an existing record.  Every step     *)
(* leaves the Kategorien and the Monate database as they are and keeps     *)
(* every page of the Transaktionen database unchanged; the only write      *)
(* call is a create into the Transaktionen database, issued by /add, and   *)
(* it adds one page.                                                       *)
(***************************************************************************)
C8_Step ==
    /\ kategorien_db' = kategorien_db
    /\ monat_db' = monat_db
    /\ \A i \in 1..Len(transakt_db) :
          \E j \in 1..Len(transakt_db') : transakt_db'[j] = transakt_db[i]
    /\ Len(transakt_db') \in {Len(transakt_db), Len(transakt_db) + 1}
    /\ transakt_db' # transakt_db => request'.route = "/add"
    /\ \A i \in 1..Len(calls') :
          /\ calls'[i].op \in {"query", "create"}
          /\ calls'[i].op = "create" =>
                /\ request'.route = "/add"
                /\ calls'[i].payload.parent.database_id = DB_TRANSAKT_ID

C8_NothingModified == [][C8_Step]_vars

\* A page was created, and another operation was handled after it.
C8_Witness ==
    /\ Added = 1
    /\ Len(transakt_db) = Len(Bestand) + 1
    /\ request.route = "/formular"

(***************************************************************************)
(* C9: resolve returns not-found without any outbound call when the name   *)
(* is empty or the database identifier is absent; otherwise it issues      *)
(* exactly one exact-match query limited to one result, and returns        *)
(* not-found when that query is empty and the identifier of its first      *)
(* record otherwise, also when several records carry the name.  Observed   *)
(* on /add, where the value resolve returned decides the relation of the   *)
(* create payload.                                                         *)
(***************************************************************************)
ResolveAsSpecified(database_id, db, name, relation) ==
    LET q == QueriesTo(db)
        properties == CreateCalls[1].payload.properties
    IN IF name = "" \/ Falsy(database_id)
       THEN /\ q = <<>>
            /\ relation \notin DOMAIN properties
       ELSE /\ Len(q) = 1
            /\ q[1].payload.page_size = <<1>>
            /\ q[1].payload.filter =
                   <<[property |-> "Name", title |-> [equals |-> name]]>>
            /\ Len(q[1].results) <= 1
            /\ IF q[1].results = <<>>
               THEN relation \notin DOMAIN properties
               ELSE /\ relation \in DOMAIN properties
                    /\ properties[relation] = <<q[1].results[1].id>>

C9_ResolveContract ==
    request.route = "/add" =>
        /\ ResolveAsSpecified(DB_KATEG_ID, KategId, request.tx.kategorie, "Kategorien")
        /\ ResolveAsSpecified(DB_MONAT_ID, MonatId, request.tx.monat, "Monat")

\* An empty month name next to a category name that two records carry: no
\* query for the month, one for the category, answered with the first.
C9_Witness ==
    /\ request.route = "/add"
    /\ request.tx.monat = ""
    /\ request.tx.kategorie = "Lebensmittel"
    /\ ~Falsy(DB_MONAT_ID)
    /\ QueriesTo(MonatId) = <<>>
    /\ Len(QueriesTo(KategId)) = 1
    /\ QueriesTo(KategId)[1].results # <<>>
    /\ CreateCalls[1].payload.properties.Kategorien = <<"kat_leb">>

(***************************************************************************)
(* C10: when /add succeeds for an expense of amount a in the category      *)
(* "Lebensmittel" and the month m, both names resolved, the next           *)
(* sumForMonth(m) without read failure is the previous one plus a; when    *)
(* /add succeeds for an expense whose category or month did not resolve,   *)
(* sumForMonth is unchanged for every month.                               *)
(***************************************************************************)
C10_Step ==
    (request'.route = "/add" /\ response'.status = 200
     /\ transakt_db' # transakt_db) =>
        LET tx == request'.tx
            properties == calls'[Len(calls')].payload.properties
            both == /\ "Kategorien" \in DOMAIN properties
                    /\ "Monat" \in DOMAIN properties
        IN /\ \A m \in MonatNamen, a \in Betraege :
                  ( /\ both
                    /\ tx.kategorie = "Lebensmittel"
                    /\ tx.monat = m
                    /\ tx.betrag = a ) => SumNow(m)' = SumNow(m) + a
           /\ ~both => \A m \in MonatNamen \cup {"April"} :
                         SumNow(m)' = SumNow(m)

C10_SumFollowsRecord == [][C10_Step]_vars

====
